---- MODULE Spec2Model ----
(***************************************************************************)
(* Model of celery_data_processing/data_processing_tasks.py:               *)
(*   - create_file_processing_tasks: the run lock, the deadline, the       *)
(*     per-user dispatch and the polling loop over the celery futures;     *)
(*   - queue_user / the celery worker: the state of one dispatched task;   *)
(*   - celery_process_file_chunks: the per-user convergence loop.          *)
(* FileProcessLock, FilesToProcess and do_process_user_file_chunks live in *)
(* db.data_access_models and libs.files_to_process: they are modelled from *)
(* their documented contract.                                              *)
(***************************************************************************)
EXTENDS Integers, Sequences, FiniteSets, TLC

\* ------------------------------------------------------------------ bounds
NumUsers == 1         \* user ids that may have files to process
MaxFiles == 10        \* files one user has pending when a loop starts
MaxPending == 3       \* files one user has pending at a time while files are uploaded

\* Two invocations of create_file_processing_tasks: one run and one that may
\* overlap it or follow it.
Runs == {1, 2}
Users == 1..NumUsers

\* Wall-clock hours at which a run reads datetime.now(): an hour of the
\* afternoon, and the last hour of the day.
Hours == {14, 23}

\* config.constants.FILE_PROCESS_PAGE_SIZE
FILE_PROCESS_PAGE_SIZE == 5

\* No loop over at most MaxFiles files gets this far: the value at which the
\* call counter stops counting, which keeps it finite.
MaxIterations == 2 * MaxFiles + 3

\* The states a celery AsyncResult goes through with task_track_started=True:
\* PENDING (queued), STARTED, then SUCCESS or FAILURE.
STARTED_OR_WAITING == {"STARTED", "whatever the state is that means queued"}

VARIABLES
    locked,          \* FileProcessLock: TRUE while the lock record exists
    pc,              \* pc[r]: where invocation r of create_file_processing_tasks is
    expiry,          \* expiry[r]: hour of the deadline run r computed (-1: none yet)
    user_ids,        \* user_ids[r]: ids still to be queued by the for loop of r
    unit,            \* unit[r][u]: state of the future run r got for user u ("NONE": not queued)
    running,         \* running[r]: futures (by user) in the list `running`
    todo,            \* todo[r]: futures of `running` the current poll round has yet to visit
    new_running,     \* new_running[r]
    failed,          \* failed[r]
    successful,      \* successful[r]
    unlock_calls,    \* unlock_calls[r]: calls of FileProcessLock.unlock() by run r
    holders,         \* the runs that called lock() and have not yet called unlock()
    now_hour,        \* now_hour[r]: now.hour as run r read it (-1: not read yet)
    deadline,        \* deadline[r][u]: the `expires` passed along with the task (-1: none)
    pickup,          \* pickup[r][u]: "none", or how a worker took the task: "ran" / "expired"
    observed_failed, \* observed_failed[r]: futures some poll round of r appended to `failed`
    files,           \* the pending FilesToProcess of the loop's user, oldest first
    initial_files,   \* files as they were when the loop started
    number_bad_files,
    previous_number_bad_files,
    starting_length,
    loop_pc,         \* where celery_process_file_chunks is
    iterations,      \* calls of do_process_user_file_chunks made so far
    errors,          \* error_handler.errors: the errors collected so far
    reports,         \* calls of email_bundled_error made so far
    attempts         \* attempts[i]: times files[i] was handed to processing by this loop

run_vars == <<locked, pc, expiry, user_ids, unit, running, todo, new_running,
              failed, successful, unlock_calls, holders, now_hour, deadline,
              pickup, observed_failed>>
loop_vars == <<files, initial_files, number_bad_files, previous_number_bad_files,
               starting_length, loop_pc, iterations, errors, reports, attempts>>
vars == <<locked, pc, expiry, user_ids, unit, running, todo, new_running,
          failed, successful, unlock_calls, holders, now_hour, deadline,
          pickup, observed_failed, files, initial_files, number_bad_files,
          previous_number_bad_files, starting_length, loop_pc, iterations,
          errors, reports, attempts>>

MinOf(S) == CHOOSE x \in S : \A y \in S : x <= y

\* ------------------------------------------------- FileProcessLock (contract)
islocked == locked

lock == locked' = TRUE

unlock == locked' = FALSE

\* ------------------------------------------- create_file_processing_tasks
RunInit ==
    /\ locked = FALSE
    /\ pc = [r \in Runs |-> "check"]
    /\ expiry = [r \in Runs |-> -1]
    /\ user_ids = [r \in Runs |-> {}]
    /\ unit = [r \in Runs |-> [u \in Users |-> "NONE"]]
    /\ running = [r \in Runs |-> {}]
    /\ todo = [r \in Runs |-> {}]
    /\ new_running = [r \in Runs |-> {}]
    /\ failed = [r \in Runs |-> {}]
    /\ successful = [r \in Runs |-> {}]
    /\ unlock_calls = [r \in Runs |-> 0]
    /\ holders = {}
    /\ now_hour = [r \in Runs |-> -1]
    /\ deadline = [r \in Runs |-> [u \in Users |-> -1]]
    /\ pickup = [r \in Runs |-> [u \in Users |-> "none"]]
    /\ observed_failed = [r \in Runs |-> {}]

LoopIdle ==
    /\ files = <<>>
    /\ initial_files = <<>>
    /\ number_bad_files = 0
    /\ previous_number_bad_files = 0
    /\ starting_length = 0
    /\ loop_pc = "idle"
    /\ iterations = 0
    /\ errors = 0
    /\ reports = 0
    /\ attempts = <<>>

Init == RunInit /\ LoopIdle

\* A variant that goes on to lock() whatever islocked() answers.
CheckLockAnyway(r) ==
    /\ pc[r] = "check"
    /\ \A q \in Runs : q < r => pc[q] # "check"
    /\ pc' = [pc EXCEPT ![r] = "lock"]
    /\ UNCHANGED <<locked, expiry, user_ids, unit, running, todo, new_running,
                   failed, successful, unlock_calls, holders>>
    /\ UNCHANGED <<now_hour, deadline, pickup, observed_failed>>

\* if FileProcessLock.islocked(): raise ProcessingOverlapError(...)
\* Invocations are numbered in the order of their islocked() call.
CheckLock(r) ==
    /\ pc[r] = "check"
    /\ \A q \in Runs : q < r => pc[q] # "check"
    /\ pc' = [pc EXCEPT ![r] = IF islocked THEN "overlap" ELSE "lock"]
    /\ UNCHANGED <<locked, expiry, user_ids, unit, running, todo, new_running,
                   failed, successful, unlock_calls, holders>>
    /\ UNCHANGED <<now_hour, deadline, pickup, observed_failed>>

\* FileProcessLock.lock()
Lock(r) ==
    /\ pc[r] = "lock"
    /\ lock
    /\ holders' = holders \cup {r}
    /\ pc' = [pc EXCEPT ![r] = "now"]
    /\ UNCHANGED <<expiry, user_ids, unit, running, todo, new_running,
                   failed, successful, unlock_calls>>
    /\ UNCHANGED <<now_hour, deadline, pickup, observed_failed>>

\* datetime(now.year, now.month, now.day, hour=now.hour + 1): datetime accepts
\* hours 0..23 and raises ValueError otherwise.
HourIsValid(h) == h >= 0 /\ h <= 23

ComputeExpiry(r) ==
    /\ pc[r] = "now"        \* now = datetime.now()
    /\ \E hour \in Hours :
          /\ now_hour' = [now_hour EXCEPT ![r] = hour]
          /\ IF HourIsValid(hour + 1)
             THEN /\ expiry' = [expiry EXCEPT ![r] = hour + 1]
                  /\ pc' = [pc EXCEPT ![r] = "enumerate"]
             ELSE /\ expiry' = expiry
                  /\ pc' = [pc EXCEPT ![r] = "raised"]
    /\ UNCHANGED <<locked, user_ids, unit, running, todo, new_running,
                   failed, successful, unlock_calls, holders>>
    /\ UNCHANGED <<deadline, pickup, observed_failed>>

\* user_ids = set(FilesToProcess(field="user_id")); running = []
Enumerate(r) ==
    /\ pc[r] = "enumerate"
    /\ \E ids \in SUBSET Users : user_ids' = [user_ids EXCEPT ![r] = ids]
    /\ running' = [running EXCEPT ![r] = {}]
    /\ pc' = [pc EXCEPT ![r] = "dispatch"]
    /\ UNCHANGED <<locked, expiry, unit, todo, new_running,
                   failed, successful, unlock_calls, holders>>
    /\ UNCHANGED <<now_hour, deadline, pickup, observed_failed>>

\* for user_id in user_ids:
\*     running.append(queue_user.delay(user_id, max_retries=0, expires=expiry))
\* The options are taken to reach the dispatcher the way the comment next to
\* the call expects ("should be able to use all options from apply_async").
Dispatch(r) ==
    /\ pc[r] = "dispatch"
    /\ IF user_ids[r] = {}
       THEN /\ pc' = [pc EXCEPT ![r] = "while"]
            /\ UNCHANGED <<user_ids, unit, running, deadline>>
       ELSE LET u == MinOf(user_ids[r]) IN
            /\ unit' = [unit EXCEPT ![r][u] = "PENDING"]
            /\ deadline' = [deadline EXCEPT ![r][u] = expiry[r]]
            /\ running' = [running EXCEPT ![r] = @ \cup {u}]
            /\ user_ids' = [user_ids EXCEPT ![r] = @ \ {u}]
            /\ pc' = pc
    /\ UNCHANGED <<locked, expiry, todo, new_running, failed, successful,
                   unlock_calls, holders>>
    /\ UNCHANGED <<now_hour, pickup, observed_failed>>

\* while running: new_running = []; failed = []; successful = []
WhileRunning(r) ==
    /\ pc[r] = "while"
    /\ IF running[r] = {}
       THEN /\ pc' = [pc EXCEPT ![r] = "unlock"]
            /\ UNCHANGED <<todo, new_running, failed, successful>>
       ELSE /\ todo' = [todo EXCEPT ![r] = running[r]]
            /\ new_running' = [new_running EXCEPT ![r] = {}]
            /\ failed' = [failed EXCEPT ![r] = {}]
            /\ successful' = [successful EXCEPT ![r] = {}]
            /\ pc' = [pc EXCEPT ![r] = "read1"]
    /\ UNCHANGED <<locked, expiry, user_ids, unit, running, unlock_calls, holders>>
    /\ UNCHANGED <<now_hour, deadline, pickup, observed_failed>>

\* if future.state == "SUCCESS": successful.append(future)
ReadSuccess(r) ==
    /\ pc[r] = "read1"
    /\ LET future == MinOf(todo[r]) IN
       successful' = [successful EXCEPT ![r] =
                         IF unit[r][future] = "SUCCESS" THEN @ \cup {future} ELSE @]
    /\ pc' = [pc EXCEPT ![r] = "read2"]
    /\ UNCHANGED <<locked, expiry, user_ids, unit, running, todo, new_running,
                   failed, unlock_calls, holders>>
    /\ UNCHANGED <<now_hour, deadline, pickup, observed_failed>>

\* A poll that raises when it meets a failed future.
ReadFailureRaises(r) ==
    /\ pc[r] = "read2"
    /\ LET future == MinOf(todo[r]) IN
       /\ failed' = [failed EXCEPT ![r] =
                     IF unit[r][future] = "FAILURE" THEN @ \cup {future} ELSE @]
       /\ observed_failed' = [observed_failed EXCEPT ![r] =
                     IF unit[r][future] = "FAILURE" THEN @ \cup {future} ELSE @]
       /\ pc' = [pc EXCEPT ![r] =
                     IF unit[r][future] = "FAILURE" THEN "raised" ELSE "read3"]
    /\ UNCHANGED <<locked, expiry, user_ids, unit, running, todo, new_running,
                   successful, unlock_calls, holders>>
    /\ UNCHANGED <<now_hour, deadline, pickup>>

\* if future.state == "FAILURE": failed.append(future)
ReadFailure(r) ==
    /\ pc[r] = "read2"
    /\ LET future == MinOf(todo[r]) IN
       /\ failed' = [failed EXCEPT ![r] =
                     IF unit[r][future] = "FAILURE" THEN @ \cup {future} ELSE @]
       /\ observed_failed' = [observed_failed EXCEPT ![r] =
                     IF unit[r][future] = "FAILURE" THEN @ \cup {future} ELSE @]
    /\ pc' = [pc EXCEPT ![r] = "read3"]
    /\ UNCHANGED <<locked, expiry, user_ids, unit, running, todo, new_running,
                   successful, unlock_calls, holders>>
    /\ UNCHANGED <<now_hour, deadline, pickup>>

\* if future.state in STARTED_OR_WAITING: new_running.append(future)
ReadRunning(r) ==
    /\ pc[r] = "read3"
    /\ LET future == MinOf(todo[r]) IN
       /\ new_running' = [new_running EXCEPT ![r] =
             IF unit[r][future] \in STARTED_OR_WAITING THEN @ \cup {future} ELSE @]
       /\ todo' = [todo EXCEPT ![r] = @ \ {future}]
       /\ pc' = [pc EXCEPT ![r] = IF todo[r] = {future} THEN "sleep" ELSE "read1"]
    /\ UNCHANGED <<locked, expiry, user_ids, unit, running, failed, successful,
                   unlock_calls, holders>>
    /\ UNCHANGED <<now_hour, deadline, pickup, observed_failed>>

\* running = new_running; sleep(5)
Sleep(r) ==
    /\ pc[r] = "sleep"
    /\ running' = [running EXCEPT ![r] = new_running[r]]
    /\ pc' = [pc EXCEPT ![r] = "while"]
    /\ UNCHANGED <<locked, expiry, user_ids, unit, todo, new_running, failed,
                   successful, unlock_calls, holders>>
    /\ UNCHANGED <<now_hour, deadline, pickup, observed_failed>>

\* A variant of the last step that gives up when a unit failed.
UnlockUnlessFailed(r) ==
    /\ pc[r] = "unlock"
    /\ IF failed[r] = {}
       THEN /\ unlock
            /\ unlock_calls' = [unlock_calls EXCEPT ![r] = @ + 1]
            /\ holders' = holders \ {r}
       ELSE UNCHANGED <<locked, unlock_calls, holders>>
    /\ pc' = [pc EXCEPT ![r] = "done"]
    /\ UNCHANGED <<expiry, user_ids, unit, running, todo, new_running, failed,
                   successful>>
    /\ UNCHANGED <<now_hour, deadline, pickup, observed_failed>>

\* FileProcessLock.unlock()
Unlock(r) ==
    /\ pc[r] = "unlock"
    /\ unlock
    /\ unlock_calls' = [unlock_calls EXCEPT ![r] = @ + 1]
    /\ holders' = holders \ {r}
    /\ pc' = [pc EXCEPT ![r] = "done"]
    /\ UNCHANGED <<expiry, user_ids, unit, running, todo, new_running, failed,
                   successful>>
    /\ UNCHANGED <<now_hour, deadline, pickup, observed_failed>>

\* ------------------------------------------------------ the celery worker
\* A worker picks the task up before its deadline and calls queue_user: with
\* task_track_started the state is STARTED. The units of one run share one
\* deadline, so none is picked up in time after one was found expired.
WorkerStart(r, u) ==
    /\ unit[r][u] = "PENDING"
    /\ \A v \in Users : pickup[r][v] # "expired"
    /\ unit' = [unit EXCEPT ![r][u] = "STARTED"]
    /\ pickup' = [pickup EXCEPT ![r][u] = "ran"]
    /\ UNCHANGED <<locked, pc, expiry, user_ids, running, todo, new_running,
                   failed, successful, unlock_calls, holders>>
    /\ UNCHANGED <<now_hour, deadline, observed_failed>>

\* A worker picks the task up when its deadline has passed (which may be at
\* any time after the dispatch): by the dispatcher's contract the unit ends
\* failed and queue_user is not called.
WorkerExpire(r, u) ==
    /\ unit[r][u] = "PENDING"
    /\ deadline[r][u] # -1
    /\ unit' = [unit EXCEPT ![r][u] = "FAILURE"]
    /\ pickup' = [pickup EXCEPT ![r][u] = "expired"]
    /\ UNCHANGED <<locked, pc, expiry, user_ids, running, todo, new_running,
                   failed, successful, unlock_calls, holders>>
    /\ UNCHANGED <<now_hour, deadline, observed_failed>>

\* queue_user returns (SUCCESS) or raises (FAILURE).
WorkerFinish(r, u) ==
    /\ unit[r][u] = "STARTED"
    /\ \E outcome \in {"SUCCESS", "FAILURE"} :
          unit' = [unit EXCEPT ![r][u] = outcome]
    /\ UNCHANGED <<locked, pc, expiry, user_ids, running, todo, new_running,
                   failed, successful, unlock_calls, holders>>
    /\ UNCHANGED <<now_hour, deadline, pickup, observed_failed>>

Next ==
    \/ \E r \in Runs : CheckLock(r) /\ UNCHANGED loop_vars
    \/ \E r \in Runs : Lock(r) /\ UNCHANGED loop_vars
    \/ \E r \in Runs : ComputeExpiry(r) /\ UNCHANGED loop_vars
    \/ \E r \in Runs : Enumerate(r) /\ UNCHANGED loop_vars
    \/ \E r \in Runs : Dispatch(r) /\ UNCHANGED loop_vars
    \/ \E r \in Runs : WhileRunning(r) /\ UNCHANGED loop_vars
    \/ \E r \in Runs : ReadSuccess(r) /\ UNCHANGED loop_vars
    \/ \E r \in Runs : ReadFailure(r) /\ UNCHANGED loop_vars
    \/ \E r \in Runs : ReadRunning(r) /\ UNCHANGED loop_vars
    \/ \E r \in Runs : Sleep(r) /\ UNCHANGED loop_vars
    \/ \E r \in Runs : Unlock(r) /\ UNCHANGED loop_vars
    \/ \E r \in Runs, u \in Users : WorkerStart(r, u) /\ UNCHANGED loop_vars
    \/ \E r \in Runs, u \in Users : WorkerExpire(r, u) /\ UNCHANGED loop_vars
    \/ \E r \in Runs, u \in Users : WorkerFinish(r, u) /\ UNCHANGED loop_vars

Spec == Init /\ [][Next]_vars

\* ------------------------------- FilesToProcess and the chunk processor
\* The queues a user may have when the loop starts: any mix of good and bad.
FileQueues == UNION {[1..n -> {"good", "bad"}] : n \in 0..MaxFiles}

CountOf(fs, kind) == Cardinality({i \in 1..Len(fs) : fs[i] = kind})

\* FilesToProcess.count(user_id=user_id)
count == Len(files)

\* The page a call works on: `count` files after the first `skip_count`.
PagePositions(fs, cnt, skip_count) ==
    {i \in 1..Len(fs) : i > skip_count /\ i <= skip_count + cnt}

\* do_process_user_file_chunks, its return value: the bad files of the page.
BadInPage(fs, cnt, skip_count) ==
    Cardinality({i \in PagePositions(fs, cnt, skip_count) : fs[i] = "bad"})

RECURSIVE DropGood(_, _, _)
DropGood(fs, first, last) ==
    IF fs = <<>>
    THEN <<>>
    ELSE LET rest == DropGood(Tail(fs), first - 1, last - 1) IN
         IF first <= 1 /\ 1 <= last /\ Head(fs) = "good"
         THEN rest
         ELSE <<Head(fs)>> \o rest

\* do_process_user_file_chunks, its effect: the good files of the page are
\* processed and removed from FilesToProcess, the bad ones stay.
AfterProcessing(fs, cnt, skip_count) ==
    DropGood(fs, skip_count + 1, skip_count + cnt)

RECURSIVE CountAttempts(_, _, _, _)
CountAttempts(fs, at, first, last) ==
    IF fs = <<>>
    THEN <<>>
    ELSE LET rest == CountAttempts(Tail(fs), Tail(at), first - 1, last - 1) IN
         IF first <= 1 /\ 1 <= last
         THEN IF Head(fs) = "good" THEN rest ELSE <<Head(at) + 1>> \o rest
         ELSE <<Head(at)>> \o rest

\* do_process_user_file_chunks, the files it attempts: every file of the page
\* once; the attempts are recorded for the files that stay.
AttemptsAfterProcessing(fs, at, cnt, skip_count) ==
    CountAttempts(fs, at, skip_count + 1, skip_count + cnt)

\* The errors one call hands to error_handler: one for each bad file of the
\* page (a bad file is a file whose processing attempt raises).
ErrorsInPage(fs, cnt, skip_count) == BadInPage(fs, cnt, skip_count)

\* ------------------------------------------- celery_process_file_chunks
LoopInit ==
    /\ RunInit
    /\ files \in FileQueues
    /\ initial_files = files
    /\ number_bad_files = 0
    /\ previous_number_bad_files = 0
    /\ starting_length = 0
    /\ loop_pc = "top"
    /\ iterations = 0
    /\ errors = 0           \* error_handler = ErrorHandler()
    /\ reports = 0
    /\ attempts = [i \in 1..Len(files) |-> 0]

\* A loop that first looks at the queue and leaves when it is empty.
LoopTopUnlessEmpty ==
    /\ loop_pc = "top"
    /\ previous_number_bad_files' = number_bad_files
    /\ starting_length' = count
    /\ loop_pc' = IF count = 0 THEN "exited" ELSE "process"
    /\ UNCHANGED <<files, initial_files, number_bad_files, iterations,
                   errors, reports, attempts>>

\* A loop that starts every pass with a fresh count of bad files.
LoopTopResetsBad ==
    /\ loop_pc = "top"
    /\ number_bad_files' = 0
    /\ previous_number_bad_files' = 0
    /\ starting_length' = count
    /\ loop_pc' = "process"
    /\ UNCHANGED <<files, initial_files, iterations, errors, reports, attempts>>

\* while True:
\*     previous_number_bad_files = number_bad_files
\*     starting_length = FilesToProcess.count(user_id=user_id)
LoopTop ==
    /\ loop_pc = "top"
    /\ previous_number_bad_files' = number_bad_files
    /\ starting_length' = count
    /\ loop_pc' = "process"
    /\ UNCHANGED <<files, initial_files, number_bad_files, iterations,
                   errors, reports, attempts>>

\* A call that never skips the bad files found so far.
SkipNothing(bad) == bad - bad

\* skip_count=number_bad_files
SkipCount(bad) == bad

\* A call that lets the first error of the page escape instead of handing it
\* to error_handler.
CallProcessErrorEscapes ==
    /\ loop_pc = "process"
    /\ number_bad_files' = number_bad_files
          + BadInPage(files, FILE_PROCESS_PAGE_SIZE, SkipCount(number_bad_files))
    /\ errors' = errors
    /\ files' = AfterProcessing(files, FILE_PROCESS_PAGE_SIZE, SkipCount(number_bad_files))
    /\ attempts' = AttemptsAfterProcessing(files, attempts, FILE_PROCESS_PAGE_SIZE,
                                           SkipCount(number_bad_files))
    /\ iterations' = IF iterations < MaxIterations THEN iterations + 1 ELSE iterations
    /\ loop_pc' = IF ErrorsInPage(files, FILE_PROCESS_PAGE_SIZE,
                                  SkipCount(number_bad_files)) > 0
                  THEN "crashed"
                  ELSE "test"
    /\ UNCHANGED <<initial_files, previous_number_bad_files, starting_length, reports>>

\* number_bad_files += do_process_user_file_chunks(count=FILE_PROCESS_PAGE_SIZE,
\*     error_handler=error_handler, skip_count=number_bad_files, user_id=user_id)
\* The processor attempts every file of the page; the attempt on a bad file
\* raises, error_handler catches the error and the call returns normally.
CallProcess ==
    /\ loop_pc = "process"
    /\ number_bad_files' = number_bad_files
          + BadInPage(files, FILE_PROCESS_PAGE_SIZE, SkipCount(number_bad_files))
    /\ errors' = errors
          + ErrorsInPage(files, FILE_PROCESS_PAGE_SIZE, SkipCount(number_bad_files))
    /\ files' = AfterProcessing(files, FILE_PROCESS_PAGE_SIZE, SkipCount(number_bad_files))
    /\ attempts' = AttemptsAfterProcessing(files, attempts, FILE_PROCESS_PAGE_SIZE,
                                           SkipCount(number_bad_files))
    /\ iterations' = IF iterations < MaxIterations THEN iterations + 1 ELSE iterations
    /\ loop_pc' = "test"
    /\ UNCHANGED <<initial_files, previous_number_bad_files, starting_length, reports>>

\* A test that forgets the pending count.
BreakOnBadOnly(starting, ending, previous_bad, bad) == previous_bad = bad

\* A test that only breaks once the queue is empty.
BreakOnEmptyOnly(starting, ending, previous_bad, bad) ==
    starting = ending /\ previous_bad = bad /\ ending = 0

\* A test that forgets the bad files.
BreakOnCountOnly(starting, ending, previous_bad, bad) == starting = ending

\* if starting_length == FilesToProcess.count(user_id=user_id):
\*     if previous_number_bad_files == number_bad_files: break
ShouldBreak(starting, ending, previous_bad, bad) ==
    starting = ending /\ previous_bad = bad

LoopTest ==
    /\ loop_pc = "test"
    /\ loop_pc' = IF ShouldBreak(starting_length, count,
                                 previous_number_bad_files, number_bad_files)
                  THEN "exited"
                  ELSE "top"
    /\ UNCHANGED <<files, initial_files, number_bad_files,
                   previous_number_bad_files, starting_length, iterations,
                   errors, reports, attempts>>

\* A function that reports whatever the collector holds.
ReportAlways(errs) == errs = errs

\* if error_handler.errors:
ShouldReport(errs) == errs # 0

\* if error_handler.errors: try: error_handler.raise_errors()
\* raise_errors raises the bundle of the collected errors; with none collected
\* the function returns.
CheckErrors ==
    /\ loop_pc = "exited"
    /\ loop_pc' = IF ShouldReport(errors) THEN "report" ELSE "returned"
    /\ UNCHANGED <<files, initial_files, number_bad_files,
                   previous_number_bad_files, starting_length, iterations,
                   errors, reports, attempts>>

\* except Exception as e: email_bundled_error(e, "Data Processing Error")
\* The call is made inside the handler with nothing around it: when it
\* returns the function returns, when it raises the exception leaves
\* celery_process_file_chunks and queue_user.
SendReport ==
    /\ loop_pc = "report"
    /\ reports' = reports + 1
    /\ \E sent \in BOOLEAN : loop_pc' = IF sent THEN "returned" ELSE "crashed"
    /\ UNCHANGED <<files, initial_files, number_bad_files,
                   previous_number_bad_files, starting_length, iterations, errors,
                   attempts>>

LoopNext ==
    \/ LoopTop /\ UNCHANGED run_vars
    \/ CallProcess /\ UNCHANGED run_vars
    \/ LoopTest /\ UNCHANGED run_vars
    \/ CheckErrors /\ UNCHANGED run_vars
    \/ SendReport /\ UNCHANGED run_vars

LoopSpec == LoopInit /\ [][LoopNext]_vars

\* A worker runs the loop to completion once it has started it.
LoopFairSpec == LoopSpec /\ WF_vars(LoopNext)

\* ------------------------------------------------ files uploaded meanwhile
\* The loop starts on a short queue.
UploadInit ==
    /\ LoopInit
    /\ Len(files) <= MaxPending

\* A device uploads a file of the loop's user while the loop is running: a
\* new FilesToProcess row, after the ones already there.
Upload(kind) ==
    /\ loop_pc \in {"top", "process", "test"}
    /\ Len(files) < MaxPending
    /\ files' = Append(files, kind)
    /\ attempts' = Append(attempts, 0)
    /\ UNCHANGED <<initial_files, number_bad_files, previous_number_bad_files,
                   starting_length, loop_pc, iterations, errors, reports>>

UploadNext ==
    \/ LoopTop /\ UNCHANGED run_vars
    \/ CallProcess /\ UNCHANGED run_vars
    \/ LoopTest /\ UNCHANGED run_vars
    \/ CheckErrors /\ UNCHANGED run_vars
    \/ SendReport /\ UNCHANGED run_vars
    \/ \E kind \in {"good", "bad"} : Upload(kind) /\ UNCHANGED run_vars

UploadSpec == UploadInit /\ [][UploadNext]_vars

\* The worker keeps running the loop; the uploads come as they may.
UploadFairSpec == UploadSpec /\ WF_vars(LoopNext)

\* ---------------------------------------------------------------- claims
InFlight == {"PENDING", "STARTED"}

\* C1: at most one invocation is between its lock() and its unlock() at any
\* time, under every interleaving of the islocked() checks and the lock() calls.
MutualExclusion == Cardinality(holders) <= 1

\* C2: when a run is about to release the lock (its polling loop has ended),
\* none of the units it dispatched is still pending or running.
ReleaseOnlyWhenAllTerminal ==
    \A r \in Runs : pc[r] = "unlock" =>
        \A u \in Users : unit[r][u] \notin InFlight

\* C3: no run has returned or raised while it still holds the lock.
NoExitHoldingLock ==
    \A r \in Runs : pc[r] \in {"done", "raised", "overlap"} => r \notin holders

\* C4: for each user at most one dispatched unit, over all runs, is pending
\* or running at any time.
OneLoopPerUser ==
    \A u \in Users : Cardinality({r \in Runs : unit[r][u] \in InFlight}) <= 1

\* C5: a run that completed its polling has called unlock() exactly once, and
\* not before the polling ended, whatever the outcome of its units.
ReleasedExactlyOnce ==
    \A r \in Runs :
        /\ pc[r] = "done" => unlock_calls[r] = 1 /\ r \notin holders
        /\ pc[r] # "done" => unlock_calls[r] = 0

\* C5 witness: a run has finished and released although a unit of its last
\* poll round had failed.
ReleasedAfterFailure ==
    \E r \in Runs : pc[r] = "done" /\ failed[r] # {} /\ unlock_calls[r] = 1

\* C6: a run whose islocked() check finds the lock held goes straight to the
\* overlap error: it does not wait, it dispatches nothing then or later, and
\* the lock and its holder are left as they were.
OverlapFailsImmediately ==
    [][\A r \in Runs :
          /\ (pc[r] = "check" /\ locked /\ pc'[r] # pc[r]) =>
                /\ pc'[r] = "overlap"
                /\ locked'
                /\ holders' = holders
                /\ unit' = unit
          /\ pc[r] = "overlap" =>
                /\ pc'[r] = "overlap"
                /\ \A u \in Users : unit[r][u] = "NONE" /\ unit'[r][u] = "NONE"]_vars

\* C6 witness: a run ended with the overlap error while another run still
\* holds the lock.
OverlapWhileHeld ==
    \E r \in Runs, q \in Runs :
        r # q /\ pc[r] = "overlap" /\ q \in holders /\ locked /\ unlock_calls[q] = 0

PollOver(r) == pc[r] \in {"unlock", "done"}

\* C12: a unit whose deadline has passed when a worker picks it up ends in
\* state FAILURE without queue_user being called, and once the polling of its
\* run is over the poll has put its future in `failed`.
ExpiredUnitObservedFailed ==
    \A r \in Runs, u \in Users :
        pickup[r][u] = "expired" =>
            /\ unit[r][u] = "FAILURE"
            /\ PollOver(r) => u \in observed_failed[r]

\* The next hour boundary after a time of hour h, counted in hours from the
\* midnight that began the day: 24 is 00:00 of the next day.
NextHourBoundary(h) == h + 1

\* C13: once a run has read the clock, at whatever hour, its deadline is the
\* next hour boundary after that time (00:00 of the next day when the hour is
\* 23), and every unit the run has dispatched carries that same deadline.
DeadlineIsNextHourBoundary ==
    \A r \in Runs :
        now_hour[r] # -1 =>
            /\ expiry[r] = NextHourBoundary(now_hour[r])
            /\ \A u \in Users : unit[r][u] # "NONE" => deadline[r][u] = expiry[r]

Dispatched(r) == {u \in Users : unit[r][u] # "NONE"}

\* C14: a run that has dispatched units never ends on an exception, whatever
\* the units' outcomes: a failed unit only shows as a future in state
\* FAILURE that the poll appends to `failed`, and the run goes on to its end.
UnitFailuresNeverRaise ==
    \A r \in Runs :
        /\ Dispatched(r) # {} => pc[r] \notin {"raised", "overlap"}
        /\ \A u \in observed_failed[r] : unit[r][u] = "FAILURE"

AllUnitsFailedRunDone ==
    \E r \in Runs :
        /\ pc[r] = "done"
        /\ Dispatched(r) # {}
        /\ \A u \in Dispatched(r) : unit[r][u] = "FAILURE"
        /\ observed_failed[r] = Dispatched(r)

\* The futures the current poll round of run r has already been through.
Visited(r) == running[r] \ todo[r]

\* C20: in a poll round every future the round has been through is in
\* exactly one of `successful`, `failed` and `new_running`, whatever state it
\* reported and even if its state changed between the three reads.
PollClassifiesEveryFuture ==
    \A r \in Runs :
        pc[r] \in {"read1", "read2", "read3", "sleep"} =>
            \A f \in Visited(r) :
                \/ f \in successful[r] /\ f \notin failed[r] /\ f \notin new_running[r]
                \/ f \notin successful[r] /\ f \in failed[r] /\ f \notin new_running[r]
                \/ f \notin successful[r] /\ f \notin failed[r] /\ f \in new_running[r]

\* ------------------------------------------------- claims about the loop
TotalFiles == Len(initial_files)

DistinctBadFiles == CountOf(initial_files, "bad")

Ceil(n, d) == (n + d - 1) \div d

\* The loop has reached its break (the function may have gone on from there).
LoopExited == loop_pc \in {"exited", "report", "returned", "crashed"}

\* C7: for any finite queue of good and bad files, with no file added while
\* the loop runs, the loop reaches its break.
LoopTerminates == <>LoopExited

\* C7 witness: the loop has broken on a queue that mixed good and bad files
\* and took more than one page.
MixedQueueExited ==
    /\ LoopExited
    /\ DistinctBadFiles > 0
    /\ DistinctBadFiles < TotalFiles
    /\ TotalFiles > FILE_PROCESS_PAGE_SIZE
    /\ iterations >= 3

\* C8, as stated: the processor is called at most
\* total_files + distinct_bad_files times.
IterationBoundClaimed == iterations <= TotalFiles + DistinctBadFiles

\* C8, amended: the processor is called at most
\* total_files + distinct_bad_files + 1 times (the pass that finds no
\* progress and breaks is one more call).
IterationBound == iterations <= TotalFiles + DistinctBadFiles + 1

\* C8 witness: a loop over a non-empty queue has ended after exactly
\* total_files + distinct_bad_files + 1 calls.
IterationBoundAttained ==
    /\ LoopExited
    /\ TotalFiles > 0
    /\ iterations = TotalFiles + DistinctBadFiles + 1

\* The queue is one full page of files, all of them bad.
OnePageAllBad ==
    /\ TotalFiles = FILE_PROCESS_PAGE_SIZE
    /\ DistinctBadFiles = TotalFiles

\* C9: when the queue is one full page of bad files, so that the processor
\* returns the whole page as bad and the pending count never changes, the loop
\* ends after exactly 2 calls with number_bad_files = page size.
AllBadPageTwoIterations ==
    OnePageAllBad =>
        /\ count = TotalFiles
        /\ iterations <= 2
        /\ LoopExited => iterations = 2 /\ number_bad_files = FILE_PROCESS_PAGE_SIZE

\* C9 witness: the loop has broken on a full page of bad files.
AllBadPageExited == OnePageAllBad /\ LoopExited /\ iterations = 2

\* The queue holds good files only.
AllGood == DistinctBadFiles = 0

\* C10, as stated: n good files (n >= 1; the empty queue is a case of its
\* own) end with no bad file after exactly ceil(n / page size) calls.
AllGoodIterationsClaimed ==
    (AllGood /\ TotalFiles > 0 /\ LoopExited) =>
        /\ number_bad_files = 0
        /\ iterations = Ceil(TotalFiles, FILE_PROCESS_PAGE_SIZE)

\* C10, amended: n good files end with no bad file after exactly
\* ceil(n / page size) + 1 calls, the last call being the one that finds the
\* queue unchanged; 10 good files with page size 5 take 3 calls.
AllGoodIterations ==
    AllGood =>
        /\ number_bad_files = 0
        /\ iterations <= Ceil(TotalFiles, FILE_PROCESS_PAGE_SIZE) + 1
        /\ LoopExited => iterations = Ceil(TotalFiles, FILE_PROCESS_PAGE_SIZE) + 1

\* C10 witness: the loop has ended on two full pages of good files.
TwoGoodPagesExited ==
    /\ AllGood
    /\ TotalFiles = 2 * FILE_PROCESS_PAGE_SIZE
    /\ LoopExited
    /\ iterations = 3
    /\ files = <<>>

EmptyQueue == TotalFiles = 0

\* C11 as claimed: with no pending file the loop exits without ever calling
\* the chunk processor.
EmptyQueueNoIterationClaimed ==
    (EmptyQueue /\ LoopExited) => iterations = 0

\* C11: with no pending file the loop calls the chunk processor exactly
\* once, the call finds nothing, and the loop breaks on that first pass
\* with no bad file counted.
EmptyQueueOneIteration ==
    EmptyQueue =>
        /\ iterations <= 1
        /\ number_bad_files = 0
        /\ LoopExited => iterations = 1

EmptyQueueExited == EmptyQueue /\ LoopExited /\ iterations = 1

ReportFailureSwallowed == reports > 0 => loop_pc = "returned"

Finished == loop_pc \in {"returned", "crashed"}

\* C17: one invocation hands the collected errors to the reporting call at
\* most once; no report is made before the loop has reached its break; and
\* when the invocation is over exactly one report was made if the collector
\* holds an error, and none if it is empty.
ReportedOnceAfterExit ==
    /\ reports <= 1
    /\ ~LoopExited => reports = 0
    /\ Finished => reports = (IF errors > 0 THEN 1 ELSE 0)

ReportedAfterSeveralPasses ==
    /\ loop_pc = "returned"
    /\ iterations >= 3
    /\ errors > 1
    /\ reports = 1

\* C18: when the loop breaks, no good file is pending and the pending files
\* are exactly the bad files counted (the queue is empty or all bad), also
\* when files were uploaded while the loop ran.
BreakIsFixedPoint ==
    loop_pc = "exited" =>
        /\ CountOf(files, "good") = 0
        /\ count = number_bad_files

\* C19: the loop reaches its break even when files keep being uploaded while
\* it runs.
LoopBreaksDespiteUploads == <>(loop_pc \notin {"top", "process", "test"})

\* The pending files this loop has handed to processing at least once.
Attempted == {i \in 1..Len(files) : attempts[i] >= 1}

\* C21: no pending file has been handed to processing more than once by the
\* loop; the files already attempted (the bad ones found so far) are the
\* first number_bad_files entries of the queue, which is what the next call
\* skips; and number_bad_files counts each of them once.
BadFilesAttemptedOnce ==
    /\ Len(attempts) = Len(files)
    /\ \A i \in 1..Len(files) : attempts[i] <= 1
    /\ Attempted = 1..number_bad_files
    /\ \A i \in Attempted : files[i] = "bad"

SecondPageAfterBadFiles ==
    /\ loop_pc = "test"
    /\ iterations >= 2
    /\ previous_number_bad_files >= 1
    /\ number_bad_files > previous_number_bad_files
    /\ Len(files) < TotalFiles

\* C22: number_bad_files is 0 when the loop starts, no step of the loop makes
\* it smaller, and it never exceeds the number of files the user had pending.
BadCountMonotoneAndBounded ==
    /\ number_bad_files = 0
    /\ [](number_bad_files <= TotalFiles)
    /\ [][number_bad_files' >= number_bad_files]_vars

BadCountReachedTotal ==
    /\ LoopExited
    /\ TotalFiles > FILE_PROCESS_PAGE_SIZE
    /\ number_bad_files = TotalFiles

====
